---------------------------- MODULE Spec2Model ----------------------------
(***************************************************************************)
(* PopupView (electron-chrome-extensions, browser/popup.ts) as a state     *)
(* machine.  Two variants of the class exist in the repository:            *)
(*   "A"  popup.ts   - load() checks the content and runs the sizing       *)
(*                     protocol itself;                                    *)
(*   "B"  part_000   - load() only loads, the 'dom-ready' listener         *)
(*                     domReady() runs the sizing protocol.                *)
(* Lengths are held in units of 1/Scale pixel, so that Math.floor is a     *)
(* real operation on the values the renderer reports.                      *)
(***************************************************************************)
EXTENDS Integers, FiniteSets, Sequences

(* ------------------------------ bounds -------------------------------- *)

\* sub-pixel resolution of the modelled lengths (units per pixel)
Scale == 2

\* number of domReady() continuations that can be suspended at once
MaxDomReady == 2

(* ------------------------- program constants -------------------------- *)

minWidth == 25
minHeight == 25
maxWidth == 800
maxHeight == 600

(* ------------------------------ helpers ------------------------------- *)

Px(n) == n * Scale

\* Math.floor on a length held in 1/Scale pixels
Floor(v) == (v \div Scale) * Scale

Min(a, b) == IF a < b THEN a ELSE b

Max(a, b) == IF a > b THEN a ELSE b

\* an optional number: <<>> is undefined, <<v>> is the number v
Missing == <<>>

Num(v) == <<v>>

\* rect.width || 0 : undefined and 0 are falsy
OrZero(d) == IF Len(d) = 0 THEN 0 ELSE d[1]

(* ------------------------------ inputs -------------------------------- *)

\* sizes reported by the measurement script or by 'preferred-size-changed'
ReqRects ==
  { [width |-> Num(Px(900)),    height |-> Num(Px(10))],
    [width |-> Missing,         height |-> Num(Px(0 - 5))],
    [width |-> Num(Px(30) + 1), height |-> Num(Px(600) + 1)],
    [width |-> Num(0),          height |-> Num(Px(300))] }

\* the rectangle load()/domReady() pass as the baseline
BaselineRect == [width |-> Num(Px(minWidth)), height |-> Num(Px(minHeight))]

\* anchorWindow.getBounds() at construction (whole pixels)
AnchorBoundsSet ==
  { [x |-> Px(100), y |-> Px(50)],
    [x |-> Px(0 - 7), y |-> Px(0)] }

\* opts.anchorRect (a client rectangle: fractional values occur)
AnchorRectSet ==
  { [x |-> Px(10), y |-> Px(20)],
    [x |-> Px(0 - 2) + 1, y |-> Px(3) + 1] }

\* where the window manager first places the new BrowserWindow
InitialOrigins ==
  { [x |-> Px(400), y |-> Px(300)],
    [x |-> Px(110), y |-> Px(70)] }

VARIABLES
  variant,            \* "A" (popup.ts) or "B" (part_000)
  destroyed,          \* this.destroyed
  browserWindow,      \* this.browserWindow is set (TRUE) or undefined (FALSE)
  parent,             \* this.parent is set (TRUE) or undefined (FALSE)
  usingPreferredSize, \* this.usingPreferredSize
  anchorWindowBounds, \* this.anchorWindowBounds
  anchorRect,         \* this.anchorRect
  anchorWindowLive,   \* anchorWindow.getBounds() now
  winAlive,           \* the BrowserWindow object is not destroyed
  parentAlive,        \* the parent BrowserWindow object is not destroyed
  devToolsOpened,     \* webContents.isDevToolsOpened()
  bounds,             \* browserWindow.getBounds()
  visible,            \* the BrowserWindow is shown
  winClosedListener,  \* browserWindow 'closed' -> destroy is subscribed
  parentClosedListener, \* parent 'closed' -> destroy is subscribed
  pendingDevtoolsClosed, \* a 'devtools-closed' event is queued
  loadPc,             \* position of the load() coroutine
  loadRejected,       \* history: loadURL rejected
  settling,           \* domReady() continuations waiting on the timer
  querying,           \* domReady() continuations waiting on the script
  sizeSource,         \* history: who applied the current size
  lastRect,           \* history: the rect of the last applied setSize
  positioned,         \* history: updatePosition has set the origin
  surfaceDestroyCalls, \* history: calls of browserWindow.destroy()
  parentOffCalls,     \* history: calls of parent.off('closed', ...)
  surfaceOffCalls,    \* history: calls of browserWindow.off('closed', ...)
  otherListeners,     \* the other events of the window still subscribed
  faults,             \* history: operations on torn-down objects
  closedBy,           \* history: the trigger that set destroyed
  reentered,          \* history: a handler ran from inside destroy()
  emptyContent,       \* history: the content check reported no child nodes
  lastEvent,          \* history: the handler that ran last
  lastFocused         \* history: getFocusedWindow() seen by the last handler

vars ==
  << variant, destroyed, browserWindow, parent, usingPreferredSize,
     anchorWindowBounds, anchorRect, anchorWindowLive, winAlive, parentAlive,
     devToolsOpened,
     bounds, visible, winClosedListener, parentClosedListener,
     pendingDevtoolsClosed, loadPc, loadRejected, settling, querying,
     sizeSource, lastRect,
     positioned, surfaceDestroyCalls, parentOffCalls, surfaceOffCalls,
     otherListeners, faults, closedBy,
     reentered, emptyContent, lastEvent, lastFocused >>

\* the fields the handlers read and write, as one record
Self ==
  [ destroyed |-> destroyed,
    browserWindow |-> browserWindow,
    parent |-> parent,
    usingPreferredSize |-> usingPreferredSize,
    anchorWindowBounds |-> anchorWindowBounds,
    anchorRect |-> anchorRect,
    anchorWindowLive |-> anchorWindowLive,
    winAlive |-> winAlive,
    parentAlive |-> parentAlive,
    devToolsOpened |-> devToolsOpened,
    bounds |-> bounds,
    visible |-> visible,
    winClosedListener |-> winClosedListener,
    parentClosedListener |-> parentClosedListener,
    pendingDevtoolsClosed |-> pendingDevtoolsClosed,
    sizeSource |-> sizeSource,
    lastRect |-> lastRect,
    positioned |-> positioned,
    surfaceDestroyCalls |-> surfaceDestroyCalls,
    parentOffCalls |-> parentOffCalls,
    surfaceOffCalls |-> surfaceOffCalls,
    otherListeners |-> otherListeners,
    faults |-> faults,
    closedBy |-> closedBy,
    reentered |-> reentered ]

\* the handler's result s becomes the next state
Becomes(s) ==
  /\ destroyed' = s.destroyed
  /\ browserWindow' = s.browserWindow
  /\ parent' = s.parent
  /\ usingPreferredSize' = s.usingPreferredSize
  /\ anchorWindowBounds' = s.anchorWindowBounds
  /\ anchorRect' = s.anchorRect
  /\ anchorWindowLive' = s.anchorWindowLive
  /\ winAlive' = s.winAlive
  /\ parentAlive' = s.parentAlive
  /\ devToolsOpened' = s.devToolsOpened
  /\ bounds' = s.bounds
  /\ visible' = s.visible
  /\ winClosedListener' = s.winClosedListener
  /\ parentClosedListener' = s.parentClosedListener
  /\ pendingDevtoolsClosed' = s.pendingDevtoolsClosed
  /\ sizeSource' = s.sizeSource
  /\ lastRect' = s.lastRect
  /\ positioned' = s.positioned
  /\ surfaceDestroyCalls' = s.surfaceDestroyCalls
  /\ parentOffCalls' = s.parentOffCalls
  /\ surfaceOffCalls' = s.surfaceOffCalls
  /\ otherListeners' = s.otherListeners
  /\ faults' = s.faults
  /\ closedBy' = s.closedBy
  /\ reentered' = s.reentered

(* ------------------------- the class's methods ------------------------ *)

\* anchorWindowBounds is null
Null == [null |-> TRUE]

\* an operation reached an object that is already torn down, or ran after
\* destruction; the name is kept in faults
Fault(s, name) == [s EXCEPT !.faults = @ \cup {name}]

\* win.show()
show(s) ==
  IF s.winAlive
    THEN [s EXCEPT !.visible = TRUE]
    ELSE Fault(s, "show-on-destroyed")

\* setSize with the upper clamp (Math.min with maxWidth/maxHeight) left out
setSizeNoMax(s, rect, src) ==
  IF ~s.browserWindow \/ ~s.parent
    THEN s
    ELSE LET width == Floor(Max(OrZero(rect.width), Px(minWidth)))
             height == Floor(Max(OrZero(rect.height), Px(minHeight)))
         IN  IF ~s.winAlive
               THEN Fault(s, "setBounds-on-destroyed")
               ELSE [s EXCEPT !.bounds = [@ EXCEPT !.width = width, !.height = height],
                              !.sizeSource = src,
                              !.lastRect = rect]

\* setSize passing setBounds a rectangle without the current origin
setSizeResetOrigin(s, rect, src) ==
  IF ~s.browserWindow \/ ~s.parent
    THEN s
    ELSE LET width == Floor(Min(Px(maxWidth), Max(OrZero(rect.width), Px(minWidth))))
             height == Floor(Min(Px(maxHeight), Max(OrZero(rect.height), Px(minHeight))))
         IN  IF ~s.winAlive
               THEN Fault(s, "setBounds-on-destroyed")
               ELSE [s EXCEPT !.bounds = [x |-> 0, y |-> 0,
                                          width |-> width, height |-> height],
                              !.sizeSource = src,
                              !.lastRect = rect]

\* setSize(rect); src names the caller for the history variables
setSize(s, rect, src) ==
  IF ~s.browserWindow \/ ~s.parent
    THEN s
    ELSE LET width == Floor(Min(Px(maxWidth), Max(OrZero(rect.width), Px(minWidth))))
             height == Floor(Min(Px(maxHeight), Max(OrZero(rect.height), Px(minHeight))))
         IN  IF ~s.winAlive
               THEN Fault(s, "setBounds-on-destroyed")
               ELSE [s EXCEPT !.bounds = [@ EXCEPT !.width = width, !.height = height],
                              !.sizeSource = src,
                              !.lastRect = rect]

\* updatePosition deriving the origin from the popup's own bounds
updatePositionFromView(s) ==
  IF ~s.browserWindow \/ s.anchorWindowBounds = Null
    THEN s
    ELSE LET x == Floor(s.bounds.x + s.anchorRect.x)
             y == Floor(s.bounds.y + s.anchorRect.y)
         IN  IF ~s.winAlive
               THEN Fault(s, "setBounds-on-destroyed")
               ELSE [s EXCEPT !.bounds = [@ EXCEPT !.x = x, !.y = y],
                              !.positioned = TRUE]

\* updatePosition reading the anchor window's bounds at the time of the call
updatePositionLive(s) ==
  IF ~s.browserWindow \/ s.anchorWindowBounds = Null
    THEN s
    ELSE LET x == Floor(s.anchorWindowLive.x + s.anchorRect.x)
             y == Floor(s.anchorWindowLive.y + s.anchorRect.y)
         IN  IF ~s.winAlive
               THEN Fault(s, "setBounds-on-destroyed")
               ELSE [s EXCEPT !.bounds = [@ EXCEPT !.x = x, !.y = y],
                              !.positioned = TRUE]

\* updatePosition()
updatePosition(s) ==
  IF ~s.browserWindow \/ s.anchorWindowBounds = Null
    THEN s
    ELSE LET x == Floor(s.anchorWindowBounds.x + s.anchorRect.x)
             y == Floor(s.anchorWindowBounds.y + s.anchorRect.y)
         IN  IF ~s.winAlive
               THEN Fault(s, "setBounds-on-destroyed")
               ELSE [s EXCEPT !.bounds = [@ EXCEPT !.x = x, !.y = y],
                              !.positioned = TRUE]

\* destroy() without its early return
neverAlreadyDestroyed(s) == FALSE

\* destroy(): the early return of line 133
alreadyDestroyed(s) == s.destroyed

\* destroy(): this.parent.isDestroyed()
parentIsDestroyed(s) == ~s.parentAlive

\* destroy(): this.browserWindow.isDestroyed()
surfaceIsDestroyed(s) == ~s.winAlive

\* the block on this.parent without this.parent = undefined
releaseParentKeepRef(s) ==
  IF s.parent
    THEN IF ~parentIsDestroyed(s)
           THEN [s EXCEPT !.parentOffCalls = @ + 1,
                          !.parentClosedListener = FALSE]
           ELSE s
    ELSE s

\* the block on this.parent without parent.off('closed', this.destroy)
releaseParentNoOff(s) ==
  IF s.parent
    THEN [s EXCEPT !.parent = FALSE]
    ELSE s

\* destroy(): the block on this.parent
releaseParent(s) ==
  IF s.parent
    THEN LET a == IF ~parentIsDestroyed(s)
                    THEN [s EXCEPT !.parentOffCalls = @ + 1,
                                   !.parentClosedListener = FALSE]
                    ELSE s
         IN  [a EXCEPT !.parent = FALSE]
    ELSE s

\* maybeClose() without the devtools check
neverInspected(s) == FALSE

\* maybeClose(): the popup's webContents is being inspected
beingInspected(s) ==
  /\ (s.browserWindow => s.winAlive)
  /\ s.browserWindow /\ s.devToolsOpened

\* maybeClose() without the focus check
focusNeverOutside(env) == FALSE

\* maybeClose(): !BrowserWindow.getFocusedWindow()
focusOutsideApp(env) == ~env.focused

RECURSIVE destroy(_, _)
RECURSIVE maybeClose(_, _)
RECURSIVE closeDevTools(_, _)
RECURSIVE surfaceDestroy(_, _)
RECURSIVE releaseSurface(_, _)

\* webContents.closeDevTools(): 'devtools-closed' is emitted either before
\* the call returns (env.sync) or from the event loop later
closeDevTools(s, env) ==
  LET a == [s EXCEPT !.devToolsOpened = FALSE]
  IN  IF env.sync
        THEN maybeClose([a EXCEPT !.reentered = TRUE], env)
        ELSE [a EXCEPT !.pendingDevtoolsClosed = TRUE]

\* browserWindow.destroy() of Electron: tears the window down and emits
\* 'closed' to the listeners still subscribed
surfaceDestroy(s, env) ==
  IF ~s.winAlive
    THEN Fault([s EXCEPT !.surfaceDestroyCalls = @ + 1], "destroy-on-destroyed")
    ELSE LET a == [s EXCEPT !.surfaceDestroyCalls = @ + 1,
                            !.winAlive = FALSE,
                            !.visible = FALSE,
                            !.devToolsOpened = FALSE]
         IN  IF a.winClosedListener THEN destroy(a, env) ELSE a

\* destroy(): the block on this.browserWindow
releaseSurface(s, env) ==
  IF s.browserWindow
    THEN IF ~surfaceIsDestroyed(s)
           THEN LET a == IF s.winAlive /\ s.devToolsOpened
                           THEN closeDevTools(s, env)
                           ELSE s
                IN  IF ~a.browserWindow
                      THEN Fault(a, "off-on-undefined")
                      ELSE [surfaceDestroy([a EXCEPT !.winClosedListener = FALSE,
                                                     !.surfaceOffCalls = @ + 1], env)
                              EXCEPT !.browserWindow = FALSE]
           ELSE [s EXCEPT !.browserWindow = FALSE]
    ELSE s

\* destroy = () => { ... }
destroy(s, env) ==
  IF alreadyDestroyed(s)
    THEN s
    ELSE releaseSurface(
           releaseParent([s EXCEPT !.destroyed = TRUE, !.closedBy = env.trigger]),
           env)

\* maybeClose = () => { ... }
maybeClose(s, env) ==
  IF beingInspected(s)
    THEN s
    ELSE IF focusOutsideApp(env)
           THEN s
           ELSE destroy(s, env)

\* updatePreferredSize without this.usingPreferredSize = true
updatePreferredSizeNoLatch(s, size) ==
  updatePosition(setSize(s, size, "live"))

\* updatePreferredSize = (event, size) => { ... }
updatePreferredSize(s, size) ==
  updatePosition(setSize([s EXCEPT !.usingPreferredSize = TRUE], size, "live"))

\* load()/domReady() polling also when the latch is set
pollingAlways(s) == TRUE

\* load()/domReady(): if (!this.usingPreferredSize)
pollingNeeded(s) == ~s.usingPreferredSize

\* queryPreferredSize(): the guard before the script is evaluated
queryStarts(s) == ~(s.usingPreferredSize \/ s.destroyed)

\* the continuation of queryPreferredSize() without this.updatePosition()
queryResumedNoPosition(s, rect) ==
  IF s.destroyed
    THEN s
    ELSE setSize(s, rect, "measured")

\* queryPreferredSize(): the continuation once the script returned rect
queryResumed(s, rect) ==
  IF s.destroyed
    THEN s
    ELSE updatePosition(setSize(s, rect, "measured"))

\* what the environment can answer to one handler
Envs(trigger) ==
  [sync : BOOLEAN, focused : BOOLEAN, trigger : {trigger}]

\* the subscriptions of the constructor other than the two 'closed' ones
ConstructorListeners(v) ==
  {"preferred-size-changed", "devtools-closed", "blur"}
    \cup (IF v = "A" THEN {"new-window"} ELSE {"dom-ready"})

(* ------------------------------ Init ---------------------------------- *)

\* the state once the constructor has returned: every listener subscribed,
\* the window hidden, load() suspended in loadURL
Init ==
  /\ variant \in {"A", "B"}
  /\ destroyed = FALSE
  /\ browserWindow = TRUE
  /\ parent = TRUE
  /\ usingPreferredSize = FALSE
  /\ anchorWindowBounds \in AnchorBoundsSet
  /\ anchorRect \in AnchorRectSet
  /\ anchorWindowLive = anchorWindowBounds
  /\ winAlive = TRUE
  /\ parentAlive = TRUE
  /\ devToolsOpened = FALSE
  /\ \E o \in InitialOrigins :
       bounds = [x |-> o.x, y |-> o.y, width |-> Px(maxWidth), height |-> Px(maxHeight)]
  /\ visible = FALSE
  /\ winClosedListener = TRUE
  /\ parentClosedListener = TRUE
  /\ pendingDevtoolsClosed = FALSE
  /\ loadPc = "loadURL"
  /\ loadRejected = FALSE
  /\ settling = 0
  /\ querying = 0
  /\ sizeSource = "initial"
  /\ lastRect = [width |-> Missing, height |-> Missing]
  /\ positioned = FALSE
  /\ surfaceDestroyCalls = 0
  /\ parentOffCalls = 0
  /\ surfaceOffCalls = 0
  /\ otherListeners = ConstructorListeners(variant)
  /\ faults = {}
  /\ closedBy = "none"
  /\ reentered = FALSE
  /\ emptyContent = FALSE
  /\ lastEvent = "constructor"
  /\ lastFocused = FALSE

(* ------------------------ events and handlers ------------------------- *)

Coroutines == << loadPc, loadRejected, settling, querying, emptyContent >>

\* an explicit call of destroy() by the owner of the popup
Destroy ==
  /\ \E env \in Envs("explicit") : Becomes(destroy(Self, env))
  /\ lastEvent' = "destroy"
  /\ UNCHANGED << variant, Coroutines, lastFocused >>

\* the popup's BrowserWindow emits 'closed'
SurfaceClosed ==
  /\ winAlive
  /\ \E env \in Envs("surface-closed") :
       LET a == [Self EXCEPT !.winAlive = FALSE, !.visible = FALSE,
                             !.devToolsOpened = FALSE]
       IN  Becomes(IF winClosedListener THEN destroy(a, env) ELSE a)
  /\ lastEvent' = "closed"
  /\ UNCHANGED << variant, Coroutines, lastFocused >>

\* the parent window emits 'closed' (subscribed with once)
ParentClosed ==
  /\ parentAlive
  /\ \E env \in Envs("parent-closed") :
       LET a == [Self EXCEPT !.parentAlive = FALSE, !.parentClosedListener = FALSE]
       IN  Becomes(IF parentClosedListener THEN destroy(a, env) ELSE a)
  /\ lastEvent' = "parent-closed"
  /\ UNCHANGED << variant, Coroutines, lastFocused >>

\* the popup's BrowserWindow emits 'blur'
Blur ==
  /\ winAlive /\ "blur" \in otherListeners
  /\ \E env \in Envs("blur") :
       /\ Becomes(maybeClose(Self, env))
       /\ lastFocused' = env.focused
  /\ lastEvent' = "blur"
  /\ UNCHANGED << variant, Coroutines >>

\* the user opens the popup's devtools
DevToolsOpen ==
  /\ winAlive /\ ~devToolsOpened
  /\ Becomes([Self EXCEPT !.devToolsOpened = TRUE])
  /\ lastEvent' = "devtools-opened"
  /\ UNCHANGED << variant, Coroutines, lastFocused >>

\* the user closes the popup's devtools; 'devtools-closed' is queued
DevToolsClose ==
  /\ winAlive /\ devToolsOpened
  /\ Becomes([Self EXCEPT !.devToolsOpened = FALSE, !.pendingDevtoolsClosed = TRUE])
  /\ lastEvent' = "devtools-closing"
  /\ UNCHANGED << variant, Coroutines, lastFocused >>

\* webContents emits 'devtools-closed'
DevToolsClosed ==
  /\ pendingDevtoolsClosed /\ "devtools-closed" \in otherListeners
  /\ \E env \in Envs("devtools-closed") :
       /\ Becomes(maybeClose([Self EXCEPT !.pendingDevtoolsClosed = FALSE], env))
       /\ lastFocused' = env.focused
  /\ lastEvent' = "devtools-closed"
  /\ UNCHANGED << variant, Coroutines >>

\* webContents emits 'preferred-size-changed'
PreferredSizeChanged ==
  /\ winAlive /\ "preferred-size-changed" \in otherListeners
  /\ \E size \in ReqRects : Becomes(updatePreferredSize(Self, size))
  /\ lastEvent' = "preferred-size-changed"
  /\ UNCHANGED << variant, Coroutines, lastFocused >>

\* load() with no try/catch around loadURL: a rejection ends load()
loadGivesUpOnReject(ok) == ~ok

\* load(): the catch around loadURL logs the rejection and load() goes on
loadGivesUp(ok) == FALSE

\* load(): loadURL settled (ok: resolved, ~ok: rejected and logged)
LoadURLSettled ==
  /\ loadPc = "loadURL"
  /\ \E ok \in BOOLEAN :
       /\ loadRejected' = ~ok
       /\ loadPc' = IF loadGivesUp(ok) THEN "failed"
                    ELSE IF variant = "A" /\ ~destroyed THEN "check"
                    ELSE "done"
       /\ lastEvent' = IF ok THEN "loadURL" ELSE "loadURL-rejected"
  /\ Becomes(Self)
  /\ UNCHANGED << variant, settling, querying, emptyContent, lastFocused >>

\* load() without the empty-content branch
contentNeverEmpty(hasChildNodes) == FALSE

\* load() of popup.ts: if (!hasChildNodes)
contentIsEmpty(hasChildNodes) == ~hasChildNodes

\* load() of popup.ts: the hasChildNodes script returned
ContentCheckResolved ==
  /\ variant = "A" /\ loadPc = "check"
  /\ \E hasChildNodes \in BOOLEAN :
       /\ emptyContent' = (emptyContent \/ ~hasChildNodes)
       /\ IF contentIsEmpty(hasChildNodes)
            THEN /\ \E env \in Envs("empty-content") : Becomes(destroy(Self, env))
                 /\ loadPc' = "done"
            ELSE IF pollingNeeded(Self)
                   THEN /\ LET a == setSize(Self, BaselineRect, "baseline")
                           IN  Becomes(IF a.destroyed
                                         THEN Fault(a, "timer-after-destroy")
                                         ELSE a)
                        /\ loadPc' = "settle"
                   ELSE /\ Becomes(show(Self))
                        /\ loadPc' = "done"
  /\ lastEvent' = "content-check"
  /\ UNCHANGED << variant, loadRejected, settling, querying, lastFocused >>

\* load() of popup.ts: the hasChildNodes script failed, load() rejects
ContentCheckRejected ==
  /\ variant = "A" /\ loadPc = "check"
  /\ loadPc' = "failed"
  /\ Becomes(Self)
  /\ lastEvent' = "content-check-failed"
  /\ UNCHANGED << variant, loadRejected, settling, querying, emptyContent, lastFocused >>

\* load() of popup.ts: the 200 ms timer fired
LoadSettleElapsed ==
  /\ variant = "A" /\ loadPc = "settle"
  /\ IF destroyed
       THEN Becomes(Self) /\ loadPc' = "done"
       ELSE IF queryStarts(Self)
              THEN Becomes(Self) /\ loadPc' = "query"
              ELSE Becomes(show(Self)) /\ loadPc' = "done"
  /\ lastEvent' = "settle"
  /\ UNCHANGED << variant, loadRejected, settling, querying, emptyContent, lastFocused >>

\* load() of popup.ts: the measurement script returned
LoadQueryResolved ==
  /\ variant = "A" /\ loadPc = "query"
  /\ \E rect \in ReqRects :
       LET a == queryResumed(Self, rect)
       IN  Becomes(IF a.destroyed THEN a ELSE show(a))
  /\ loadPc' = "done"
  /\ lastEvent' = "query"
  /\ UNCHANGED << variant, loadRejected, settling, querying, emptyContent, lastFocused >>

\* load() of popup.ts: the measurement script failed, load() rejects
LoadQueryRejected ==
  /\ variant = "A" /\ loadPc = "query"
  /\ loadPc' = "failed"
  /\ Becomes(Self)
  /\ lastEvent' = "query-failed"
  /\ UNCHANGED << variant, loadRejected, settling, querying, emptyContent, lastFocused >>

\* part_000: webContents emits 'dom-ready', domReady() starts
DomReady ==
  /\ variant = "B" /\ winAlive /\ "dom-ready" \in otherListeners
  /\ IF pollingNeeded(Self)
       THEN /\ settling + querying < MaxDomReady
            /\ Becomes(setSize(Self, BaselineRect, "baseline"))
            /\ settling' = settling + 1
       ELSE /\ Becomes(show(Self))
            /\ UNCHANGED settling
  /\ lastEvent' = "dom-ready"
  /\ UNCHANGED << variant, loadPc, loadRejected, querying, emptyContent, lastFocused >>

\* part_000: domReady()'s 200 ms timer fired
DomReadySettleElapsed ==
  /\ variant = "B" /\ settling > 0
  /\ settling' = settling - 1
  /\ IF queryStarts(Self)
       THEN Becomes(Self) /\ querying' = querying + 1
       ELSE Becomes(show(Self)) /\ UNCHANGED querying
  /\ lastEvent' = "settle"
  /\ UNCHANGED << variant, loadPc, loadRejected, emptyContent, lastFocused >>

\* part_000: domReady()'s measurement script returned
DomReadyQueryResolved ==
  /\ variant = "B" /\ querying > 0
  /\ querying' = querying - 1
  /\ \E rect \in ReqRects : Becomes(show(queryResumed(Self, rect)))
  /\ lastEvent' = "query"
  /\ UNCHANGED << variant, loadPc, loadRejected, settling, emptyContent, lastFocused >>

\* part_000: domReady()'s measurement script failed, domReady() rejects
DomReadyQueryRejected ==
  /\ variant = "B" /\ querying > 0
  /\ querying' = querying - 1
  /\ Becomes(Self)
  /\ lastEvent' = "query-failed"
  /\ UNCHANGED << variant, loadPc, loadRejected, settling, emptyContent, lastFocused >>

Next ==
  \/ Destroy
  \/ SurfaceClosed
  \/ ParentClosed
  \/ Blur
  \/ DevToolsOpen
  \/ DevToolsClose
  \/ DevToolsClosed
  \/ PreferredSizeChanged
  \/ LoadURLSettled
  \/ ContentCheckResolved
  \/ ContentCheckRejected
  \/ LoadSettleElapsed
  \/ LoadQueryResolved
  \/ LoadQueryRejected
  \/ DomReady
  \/ DomReadySettleElapsed
  \/ DomReadyQueryResolved
  \/ DomReadyQueryRejected

Spec == Init /\ [][Next]_vars

TypeOK ==
  /\ variant \in {"A", "B"}
  /\ destroyed \in BOOLEAN
  /\ settling \in 0..MaxDomReady
  /\ querying \in 0..MaxDomReady

(* --------------------- destroy() with a failing step ------------------ *)

\* the release steps of destroy(), none of which is inside a try/catch
ThrowingSteps ==
  {"parent.off", "closeDevTools", "browserWindow.off", "browserWindow.destroy"}

\* destroy() reaches the step from state s
StepReached(s, step) ==
  /\ ~alreadyDestroyed(s)
  /\ IF step = "parent.off"
       THEN s.parent /\ ~parentIsDestroyed(s)
       ELSE /\ s.browserWindow /\ ~surfaceIsDestroyed(s)
            /\ (step = "closeDevTools" => s.devToolsOpened)

\* destroy() when the given step throws: the statements before it have
\* run, those after it have not, and the exception leaves destroy()
destroyThrowing(s, env, step) ==
  LET s1 == [s EXCEPT !.destroyed = TRUE, !.closedBy = env.trigger]
      s2 == releaseParent(s1)
      s3 == IF s2.winAlive /\ s2.devToolsOpened THEN closeDevTools(s2, env) ELSE s2
      s4 == [s3 EXCEPT !.winClosedListener = FALSE, !.surfaceOffCalls = @ + 1]
  IN  CASE step = "parent.off" -> s1
        [] step = "closeDevTools" -> s2
        [] step = "browserWindow.off" -> s3
        [] step = "browserWindow.destroy" -> s4

\* an explicit call of destroy() in which one release step throws
DestroyThrows ==
  /\ \E step \in ThrowingSteps, env \in Envs("explicit") :
       /\ StepReached(Self, step)
       /\ Becomes(destroyThrowing(Self, env, step))
  /\ lastEvent' = "destroy-threw"
  /\ UNCHANGED << variant, Coroutines, lastFocused >>

\* the events that reach destroy(), a release step of which may throw; the
\* sizing protocol, which calls none of the release steps, is left out
NextThrowing ==
  \/ DestroyThrows
  \/ Destroy
  \/ SurfaceClosed
  \/ ParentClosed
  \/ Blur
  \/ DevToolsOpen
  \/ DevToolsClose
  \/ DevToolsClosed

SpecThrowing == Init /\ [][NextThrowing]_vars

(* ------------------- geometry: moving anchor, direct calls ------------ *)

\* the anchor window is moved or resized after the popup was constructed
AnchorMoved ==
  /\ \E b \in AnchorBoundsSet \ {anchorWindowLive} :
       Becomes([Self EXCEPT !.anchorWindowLive = b])
  /\ lastEvent' = "anchor-moved"
  /\ UNCHANGED << variant, Coroutines, lastFocused >>

\* a call of the public method setSize(rect) on its own
SetSizeCalled ==
  /\ \E rect \in ReqRects : Becomes(setSize(Self, rect, "direct"))
  /\ lastEvent' = "setSize"
  /\ UNCHANGED << variant, Coroutines, lastFocused >>

\* a call of updatePosition() on its own
UpdatePositionCalled ==
  /\ Becomes(updatePosition(Self))
  /\ lastEvent' = "updatePosition"
  /\ UNCHANGED << variant, Coroutines, lastFocused >>

\* sizing and positioning with a moving anchor; the close policy (blur,
\* devtools), which touches neither size nor position, is left out
NextGeometry ==
  \/ AnchorMoved
  \/ SetSizeCalled
  \/ UpdatePositionCalled
  \/ Destroy
  \/ SurfaceClosed
  \/ ParentClosed
  \/ PreferredSizeChanged
  \/ LoadURLSettled
  \/ ContentCheckResolved
  \/ ContentCheckRejected
  \/ LoadSettleElapsed
  \/ LoadQueryResolved
  \/ LoadQueryRejected
  \/ DomReady
  \/ DomReadySettleElapsed
  \/ DomReadyQueryResolved
  \/ DomReadyQueryRejected

SpecGeometry == Init /\ [][NextGeometry]_vars

(* ----------------------------- fairness ------------------------------ *)

\* every asynchronous step settles: loadURL, each script evaluation
\* (resolved or rejected) and each 200 ms timer; in part_000 the window also
\* emits 'dom-ready' for the document it loaded
Fairness ==
  /\ WF_vars(LoadURLSettled)
  /\ WF_vars(ContentCheckResolved \/ ContentCheckRejected)
  /\ WF_vars(LoadSettleElapsed)
  /\ WF_vars(LoadQueryResolved \/ LoadQueryRejected)
  /\ WF_vars(DomReady)
  /\ WF_vars(DomReadySettleElapsed)
  /\ WF_vars(DomReadyQueryResolved \/ DomReadyQueryRejected)

FairSpec == Spec /\ Fairness

(* ------------------------------ claims -------------------------------- *)

\* C1: once updatePreferredSize has run (usingPreferredSize is TRUE), the
\* popup's width and height are changed only by later
\* 'preferred-size-changed' notifications, never by the polling path.
C1_LiveSizeOnlyChangedByLive ==
  [][ (usingPreferredSize
         /\ (bounds'.width # bounds.width \/ bounds'.height # bounds.height))
      => lastEvent' = "preferred-size-changed" ]_vars

\* C2: a continuation of load()/domReady()/queryPreferredSize() that resumes
\* after destroy() touches no window (no setBounds, no show) and starts no
\* timer.
C2_NoWorkAfterDestroy ==
  faults \cap {"show-on-destroyed", "setBounds-on-destroyed", "timer-after-destroy"} = {}

\* C3: whatever triggers call destroy(), in whatever order and also from
\* inside destroy() itself, browserWindow.destroy() runs at most once and
\* never on a torn-down window, parent.off runs at most once, and once
\* destroyed is TRUE no further trigger changes what destroy() left behind.
C3_DestroyIdempotent ==
  /\ [](/\ surfaceDestroyCalls <= 1
        /\ parentOffCalls <= 1
        /\ faults \cap {"destroy-on-destroyed", "off-on-undefined"} = {})
  /\ [][ destroyed =>
           UNCHANGED << destroyed, browserWindow, parent, winAlive, bounds,
                        visible, usingPreferredSize, winClosedListener,
                        parentClosedListener, surfaceDestroyCalls,
                        parentOffCalls, closedBy, reentered >> ]_vars

\* C3 witness: destroy() was re-entered through closeDevTools() when the
\* parent closed, and an explicit destroy() followed.
C3_Witness ==
  /\ destroyed /\ reentered
  /\ closedBy = "parent-closed"
  /\ lastEvent = "destroy"
  /\ surfaceDestroyCalls = 1

\* C4: every size setSize applies lies within [25,800] x [25,600] in whole
\* pixels; a requested 900 x 10 is applied as 800 x 25.
C4_SizeClamped ==
  sizeSource # "initial" =>
    /\ Px(minWidth) <= bounds.width /\ bounds.width <= Px(maxWidth)
    /\ Px(minHeight) <= bounds.height /\ bounds.height <= Px(maxHeight)
    /\ bounds.width % Scale = 0
    /\ bounds.height % Scale = 0
    /\ (lastRect = [width |-> Num(Px(900)), height |-> Num(Px(10))]
          => bounds.width = Px(800) /\ bounds.height = Px(25))

\* C4 witness: a measured box of 900 x 10 has been applied.
C4_Witness ==
  /\ sizeSource = "measured"
  /\ lastRect = [width |-> Num(Px(900)), height |-> Num(Px(10))]
  /\ winAlive

\* v is the greatest whole pixel not above r
IsFloorOf(v, r) == v % Scale = 0 /\ v <= r /\ r < v + Scale

\* C5: once updatePosition has run, the popup's origin is
\* floor(anchorWindowBounds + anchorRect) on both axes, whatever its earlier
\* position; anchor (100,50) with offset (10,20) gives (110,70).
C5_PositionFromAnchor ==
  positioned =>
    /\ IsFloorOf(bounds.x, anchorWindowBounds.x + anchorRect.x)
    /\ IsFloorOf(bounds.y, anchorWindowBounds.y + anchorRect.y)
    /\ (anchorWindowBounds = [x |-> Px(100), y |-> Px(50)]
          /\ anchorRect = [x |-> Px(10), y |-> Px(20)]
          => bounds.x = Px(110) /\ bounds.y = Px(70))

\* C5 witness: a live popup with a fractional offset has been positioned.
C5_Witness ==
  /\ positioned /\ ~destroyed
  /\ anchorRect.x % Scale # 0
  /\ bounds.x = Floor(anchorWindowBounds.x + anchorRect.x)

\* a step of maybeClose (by 'blur' or by 'devtools-closed')
MaybeCloseStep == lastEvent' \in {"blur", "devtools-closed"}

\* C6: maybeClose never destroys the popup while its devtools are open, and
\* on 'blur' with devtools closed and a focused window in the application
\* it destroys the popup.
C6_MaybeCloseDevTools ==
  [][ /\ (MaybeCloseStep /\ devToolsOpened /\ ~destroyed) => ~destroyed'
      /\ (lastEvent' = "blur" /\ ~devToolsOpened /\ lastFocused') => destroyed'
    ]_vars

\* C6 witness: 'blur' arrived with devtools open and the application
\* focused, and the popup is still there.
C6_Witness ==
  /\ lastEvent = "blur"
  /\ devToolsOpened /\ lastFocused
  /\ ~destroyed /\ winAlive

\* C7: maybeClose, by 'blur' or by 'devtools-closed', does not destroy the
\* popup when no window of the application is focused.
C7_MaybeCloseFocusOutside ==
  [][ (MaybeCloseStep /\ ~lastFocused' /\ ~destroyed) => ~destroyed' ]_vars

\* C7 witness: 'devtools-closed' arrived with devtools closed and the focus
\* outside the application, and the popup is still there.
C7_Witness ==
  /\ lastEvent = "devtools-closed"
  /\ ~devToolsOpened /\ ~lastFocused
  /\ ~destroyed /\ winAlive

\* C8: whenever the popup is visible its size was applied from a
\* measurement or a live notification, never the 25 x 25 baseline.
C8_VisibleOnlyWhenSized == visible => sizeSource \in {"measured", "live"}

\* C8 in popup.ts alone
C8_VisibleOnlyWhenSizedA == variant = "A" => C8_VisibleOnlyWhenSized

\* C9: in popup.ts, once the content check reports no child nodes the popup
\* is destroyed in that same step and is never visible, and neither the
\* baseline nor a measurement was applied first.
C9_EmptyContentDestroys ==
  variant = "A" =>
    /\ (loadPc \in {"loadURL", "check"} => ~visible)
    /\ (emptyContent =>
          /\ destroyed /\ ~visible
          /\ loadPc = "done"
          /\ sizeSource \notin {"baseline", "measured"})

\* C9 witness: the empty-content check is what destroyed the popup.
C9_Witness ==
  /\ variant = "A" /\ emptyContent
  /\ closedBy = "empty-content"
  /\ destroyed

\* C10: destroyed never goes back to FALSE, and between callbacks destroyed
\* is TRUE exactly when this.browserWindow and this.parent are both
\* undefined.
C10_DestroyedIffReleased ==
  /\ [](destroyed <=> (~browserWindow /\ ~parent))
  /\ [](destroyed <=> (~browserWindow \/ ~parent))
  /\ [][destroyed => destroyed']_vars

\* C10 witness: the window closed with its parent still open, and both
\* references are gone.
C10_Witness ==
  /\ destroyed /\ ~browserWindow /\ ~parent
  /\ closedBy = "surface-closed"
  /\ parentAlive

\* v is the requested length d clamped to [lo, hi] and floored
IsClampOf(v, d, lo, hi) ==
  LET r == OrZero(d)
  IN  IF r < lo THEN v = lo
      ELSE IF r > hi THEN v = hi
      ELSE IsFloorOf(v, r)

\* a step of updatePreferredSize
LiveStep == lastEvent' = "preferred-size-changed"

\* C11 as stated: a 'preferred-size-changed' notification sets
\* usingPreferredSize, applies the size and leaves the popup shown.
C11_LiveNotificationShows ==
  [][ LiveStep => (usingPreferredSize' /\ sizeSource' = "live" /\ visible') ]_vars

\* C11 amended: a 'preferred-size-changed' notification sets
\* usingPreferredSize, applies the notified size clamped to
\* [25,800] x [25,600], moves the popup to floor(anchor + offset), and leaves
\* its visibility as it was.
C11_LiveNotificationSizes ==
  [][ LiveStep =>
        /\ usingPreferredSize'
        /\ sizeSource' = "live"
        /\ lastRect' \in ReqRects
        /\ IsClampOf(bounds'.width, lastRect'.width, Px(minWidth), Px(maxWidth))
        /\ IsClampOf(bounds'.height, lastRect'.height, Px(minHeight), Px(maxHeight))
        /\ IsFloorOf(bounds'.x, anchorWindowBounds.x + anchorRect.x)
        /\ IsFloorOf(bounds'.y, anchorWindowBounds.y + anchorRect.y)
        /\ visible' = visible ]_vars

\* C11 witness: a notification was handled on a popup that was not shown,
\* and it is still not shown.
C11_Witness ==
  /\ lastEvent = "preferred-size-changed"
  /\ usingPreferredSize /\ sizeSource = "live"
  /\ ~visible /\ winAlive /\ ~destroyed

\* C12: usingPreferredSize never goes back to FALSE, and while it is TRUE
\* no step applies the 25 x 25 baseline, starts the settle timer or starts a
\* measurement script (end of load in popup.ts, 'dom-ready' in part_000).
C12_LatchDisablesPolling ==
  [][ usingPreferredSize =>
        /\ usingPreferredSize'
        /\ sizeSource' # "baseline"
        /\ (loadPc = "check" => loadPc' \notin {"settle", "query"})
        /\ (loadPc' = "query" => loadPc = "query")
        /\ settling' <= settling
        /\ querying' <= querying ]_vars

\* C12 witness: 'dom-ready' fired with the latch set and showed the popup
\* at its live size with nothing left polling.
C12_Witness ==
  /\ usingPreferredSize
  /\ lastEvent = "dom-ready"
  /\ settling = 0 /\ querying = 0
  /\ visible /\ sizeSource = "live"

C14_LoadFailureNotFatal ==
  [][ lastEvent' = "loadURL-rejected" =>
        /\ destroyed' = destroyed
        /\ loadPc' = (IF variant = "A" /\ ~destroyed THEN "check" ELSE "done")
        /\ UNCHANGED << winAlive, browserWindow, parent, bounds, visible,
                        usingPreferredSize, settling, querying, sizeSource >>
    ]_vars

\* C14 witness: in popup.ts, after a rejected loadURL the baseline, the
\* timer and the measurement ran and the popup is shown at the measured size.
C14_Witness ==
  /\ variant = "A" /\ loadRejected
  /\ loadPc = "done"
  /\ ~destroyed /\ visible
  /\ sizeSource = "measured" /\ positioned

\* C15: a popup that is not destroyed and whose content-check or
\* measurement script failed is shown all the same: once load() of popup.ts
\* has ended on such a failure (no other code calls show()), the popup is
\* visible.
C15_EvalFailureStillShows ==
  (variant = "A" /\ loadPc = "failed" /\ ~destroyed /\ winAlive) => visible

\* C16: also when a release step of destroy() throws, destroyed is TRUE
\* only with the window torn down and both references cleared.
C16_DestroyedMeansReleased ==
  destroyed => (~winAlive /\ ~browserWindow /\ ~parent)

\* C17: anchorWindowBounds is the anchor's bounds at construction and is
\* never assigned again; however the anchor window moves afterwards, a
\* positioned popup sits at floor(snapshot + anchorRect).
C17_AnchorSnapshotOnly ==
  /\ [][anchorWindowBounds' = anchorWindowBounds]_vars
  /\ [](positioned =>
          /\ IsFloorOf(bounds.x, anchorWindowBounds.x + anchorRect.x)
          /\ IsFloorOf(bounds.y, anchorWindowBounds.y + anchorRect.y))

\* C17 witness: updatePosition ran, through a live notification, after the
\* anchor window had moved away from the snapshot.
C17_Witness ==
  /\ anchorWindowLive # anchorWindowBounds
  /\ lastEvent = "preferred-size-changed"
  /\ positioned /\ ~destroyed /\ winAlive

\* C18: setSize leaves x and y as they were, updatePosition leaves width
\* and height as they were, and neither changes destroyed,
\* usingPreferredSize or the visibility.
C18_SizeAndPositionIndependent ==
  [][ /\ lastEvent' = "setSize" =>
           /\ bounds'.x = bounds.x /\ bounds'.y = bounds.y
           /\ UNCHANGED << destroyed, usingPreferredSize, visible >>
      /\ lastEvent' = "updatePosition" =>
           /\ bounds'.width = bounds.width /\ bounds'.height = bounds.height
           /\ UNCHANGED << destroyed, usingPreferredSize, visible >>
    ]_vars

\* C18 witness: setSize applied 30.5 x 600.5 to a positioned popup, then
\* updatePosition ran: the origin and the size 30 x 600 are both in place.
C18_Witness ==
  /\ lastEvent = "updatePosition"
  /\ sizeSource = "direct"
  /\ bounds.width = Px(30) /\ bounds.height = Px(600)
  /\ positioned /\ winAlive
  /\ bounds.x = Floor(anchorWindowBounds.x + anchorRect.x)

\* C19: whenever the popup is visible, updatePosition has run and the
\* popup's origin is floor(anchorWindowBounds + anchorRect) on both axes.
C19_VisibleAtAnchor ==
  (visible /\ anchorWindowBounds # Null) =>
    /\ positioned
    /\ IsFloorOf(bounds.x, anchorWindowBounds.x + anchorRect.x)
    /\ IsFloorOf(bounds.y, anchorWindowBounds.y + anchorRect.y)

\* C19 witness: the polling path applied its measurement, positioned the
\* popup and showed it, with no live notification received.
C19_Witness ==
  /\ visible /\ positioned
  /\ ~usingPreferredSize
  /\ sizeSource = "measured"
  /\ lastEvent = "query"
  /\ bounds.x # Px(400)

\* C20: with every asynchronous step settling, the popup is eventually
\* shown or destroyed.
C20_EventuallyShownOrDestroyed == <>(visible \/ destroyed)

=============================================================================
